---- MODULE Spec2Model ----
(***************************************************************************)
(* A model of the value critic (hw2/cs285/networks/critics.py) and of the  *)
(* Implicit Q-Learning agent (hw5/cs285/agents/iql_agent.py).              *)
(*                                                                         *)
(* Numbers.  Network parameters, observations, rewards and network outputs *)
(* are integers: a parameter value p stands for p * (learning_rate /       *)
(* StepUnits), so one optimizer step of size learning_rate moves a         *)
(* parameter by StepUnits.  Losses are exact fractions [num, den].         *)
(* Gradients are kept times GradScale, rounded to an integer; Adam's       *)
(* moments are fixed-point numbers and every division rounds toward zero,  *)
(* as a floating-point unit rounds.                                        *)
(*                                                                         *)
(* Tensors.  A tensor is [shape |-> <<d1, ..>>, data |-> <<x1, ..>>], the  *)
(* data in row-major order; ranks 0, 1 and 2 occur.                        *)
(***************************************************************************)
EXTENDS Integers, Sequences, FiniteSets, TLC

\* ------------------------------------------------------------- bounds
MaxBatch == 2          \* largest batch size B
MaxCalls == 2          \* gradient steps of one optimizer when methods are called one by one
MaxSteps == 3          \* calls of IQLAgent.update in one run of the training loop
MaxPeriod == 2         \* largest target_update_period

\* ------------------------------------------------------- arithmetic
Max(a, b) == IF a >= b THEN a ELSE b

\* Division rounding toward zero.
Div(a, b) == IF a >= 0 THEN a \div b ELSE -((-a) \div b)

\* The sequence f itself.  The comparison makes the model checker compute
\* its elements once; it would otherwise compute an element on every use.
Once(f) == IF f = <<>> THEN <<>> ELSE f

\* F applied to x, x being computed once: a name for an intermediate value.
With(x, F(_)) == F(x)

RECURSIVE SumSeq(_)
SumSeq(s) == IF s = <<>> THEN 0 ELSE s[1] + SumSeq(Tail(s))

\* The largest r in lo..hi with r * r <= x, by bisection.
RECURSIVE SqrtSearch(_, _, _)
SqrtSearch(x, lo, hi) ==
    IF lo >= hi THEN lo
    ELSE IF ((lo + hi + 1) \div 2) * ((lo + hi + 1) \div 2) <= x
         THEN SqrtSearch(x, (lo + hi + 1) \div 2, hi)
         ELSE SqrtSearch(x, lo, ((lo + hi + 1) \div 2) - 1)

\* floor(sqrt(x)) for x >= 0.
ISqrt(x) == SqrtSearch(x, 0, 46340)

\* --------------------------------------------------------- tensors
Numel(sh) == IF Len(sh) = 0 THEN 1
             ELSE IF Len(sh) = 1 THEN sh[1] ELSE sh[1] * sh[2]

Tensor(sh, d) == [shape |-> sh, data |-> Once(d)]

\* A shape read as two dimensions, missing leading dimensions being 1.
Pad2(sh) == IF Len(sh) = 0 THEN <<1, 1>>
            ELSE IF Len(sh) = 1 THEN <<1, sh[1]>> ELSE sh

\* torch broadcasting: the shapes are aligned at the last dimension; two
\* dimensions go together when they are equal or one of them is 1.
BroadcastablePadded(pa, pb) ==
    \A k \in 1..2 : pa[k] = pb[k] \/ pa[k] = 1 \/ pb[k] = 1

Broadcastable(sa, sb) == BroadcastablePadded(Pad2(sa), Pad2(sb))

BroadcastShapePadded(r, pa, pb) ==
    IF r = 0 THEN <<>>
    ELSE IF r = 1 THEN <<Max(pa[2], pb[2])>>
    ELSE <<Max(pa[1], pb[1]), Max(pa[2], pb[2])>>

BroadcastShape(sa, sb) ==
    BroadcastShapePadded(Max(Len(sa), Len(sb)), Pad2(sa), Pad2(sb))

\* The position in a tensor of (padded) shape ps that element k of a
\* broadcast result of (padded) shape po is read from.
SrcIndexPadded(ps, po, k) ==
    (IF ps[1] = 1 THEN 0 ELSE (k - 1) \div po[2]) * ps[2]
      + (IF ps[2] = 1 THEN 1 ELSE ((k - 1) % po[2]) + 1)

SrcIndex(sh, out, k) == SrcIndexPadded(Pad2(sh), Pad2(out), k)

\* t.expand(out): the data of t, broadcast to shape out.
Expand(t, out) ==
    Once([k \in 1..Numel(out) |-> t.data[SrcIndex(t.shape, out, k)]])

SubData(x, y) == [k \in 1..Len(x) |-> x[k] - y[k]]
AddData(x, y) == [k \in 1..Len(x) |-> x[k] + y[k]]
MulData(x, y) == [k \in 1..Len(x) |-> x[k] * y[k]]

TSubTo(a, b, out) == Tensor(out, SubData(Expand(a, out), Expand(b, out)))
TAddTo(a, b, out) == Tensor(out, AddData(Expand(a, out), Expand(b, out)))
TMulTo(a, b, out) == Tensor(out, MulData(Expand(a, out), Expand(b, out)))

\* a - b, a + b and a * b, broadcast.
TSub(a, b) == TSubTo(a, b, BroadcastShape(a.shape, b.shape))
TAdd(a, b) == TAddTo(a, b, BroadcastShape(a.shape, b.shape))
TMul(a, b) == TMulTo(a, b, BroadcastShape(a.shape, b.shape))

\* torch.square
TSquare(t) == Tensor(t.shape, [k \in 1..Len(t.data) |-> t.data[k] * t.data[k]])

\* Tensor.mean(): the sum over the number of elements, as a fraction.
TMean(t) == [num |-> SumSeq(t.data), den |-> Len(t.data)]

\* Tensor.squeeze(): every dimension of size 1 is removed.
Squeeze(t) == Tensor(SelectSeq(t.shape, LAMBDA d : d # 1), t.data)

\* torch.unsqueeze(t, 1) of a tensor of rank 1: [B] becomes [B, 1].
Unsqueeze1(t) == Tensor(<<t.shape[1], 1>>, t.data)

\* torch.gather(t, -1, index): t of shape [B, A], index of shape [B, 1];
\* row i of the result is t[i, index[i]], the indices counting from 0.
Gather(t, index) ==
    Tensor(index.shape,
           [i \in 1..Len(index.data) |->
               t.data[(i - 1) * t.shape[2] + index.data[i] + 1]])

\* The gradient that flows back through a broadcast: the coefficient of
\* every result element is added to the operand element it was read from.
Unbroadcast(sh, out, coef) ==
    Once([i \in 1..Numel(sh) |->
            SumSeq([k \in 1..Numel(out) |->
                      IF SrcIndex(sh, out, k) = i THEN coef[k] ELSE 0])])

\* ------------------------------------------------- the linear network
\* ptu.build_mlp with n_layers = 0 is one nn.Linear(ob_dim, output_size);
\* here ob_dim = 1, so an observation is one number and the parameters are
\* weight[o] and bias[o] for every output o.  The output has shape
\* [B, output_size].
Linear(w, b) == [weight |-> Once(w), bias |-> Once(b)]

LinearForward(p, obs) ==
    Tensor(<<Len(obs), Len(p.bias)>>,
           [k \in 1..(Len(obs) * Len(p.bias)) |->
               p.weight[((k - 1) % Len(p.bias)) + 1]
                   * obs[((k - 1) \div Len(p.bias)) + 1]
                 + p.bias[((k - 1) % Len(p.bias)) + 1]])

\* Backpropagation through the linear layer: coef[k] is the derivative of
\* the loss by output element k (times a common denominator).
LinearBackward(obs, n, coef) ==
    Linear([o \in 1..n |->
              SumSeq([i \in 1..Len(obs) |-> coef[(i - 1) * n + o] * obs[i]])],
           [o \in 1..n |->
              SumSeq([i \in 1..Len(obs) |-> coef[(i - 1) * n + o]])])

\* Gradients are kept times GradScale.
GradScale == 20

\* The gradient of a loss num/den: every parameter's numerator over den.
ScaleGrad(g, den) ==
    Linear([o \in 1..Len(g.weight) |-> Div(GradScale * g.weight[o], den)],
           [o \in 1..Len(g.bias) |-> Div(GradScale * g.bias[o], den)])

ZeroLike(p) == Linear([o \in 1..Len(p.weight) |-> 0], [o \in 1..Len(p.bias) |-> 0])

\* ---------------------------------------------------------------- Adam
\* torch.optim.Adam with its defaults: betas (0.9, 0.999), eps 1e-8, no
\* weight decay.  The first moment m is kept times MomentScale and the
\* second moment v times VarScale.
StepUnits == 4
Beta1Num == 9
Beta1Den == 10
Beta2Num == 999
Beta2Den == 1000
MomentScale == 1000
VarScale == 10000
SqrtScale == 10
\* eps is far below the fixed-point resolution: all it does here is keep
\* the denominator positive.
AdamEps == 1

\* MomentScale * beta1^t and VarScale * beta2^t.
RECURSIVE Beta1Pow(_)
Beta1Pow(t) == IF t = 0 THEN MomentScale ELSE Div(Beta1Pow(t - 1) * Beta1Num, Beta1Den)

RECURSIVE Beta2Pow(_)
Beta2Pow(t) == IF t = 0 THEN VarScale ELSE Div(Beta2Pow(t - 1) * Beta2Num, Beta2Den)

\* The bias corrections 1 - beta^t, times MomentScale and VarScale.
BiasCorrection1(t) == MomentScale - Beta1Pow(t)
BiasCorrection2(t) == VarScale - Beta2Pow(t)

\* exp_avg.lerp_(grad, 1 - beta1)
AdamM(m, g) ==
    Div(Beta1Num * m + (Beta1Den - Beta1Num) * MomentScale * g, Beta1Den)

\* exp_avg_sq.mul_(beta2).addcmul_(grad, grad, value = 1 - beta2)
AdamV(v, g) ==
    v - Div(v * (Beta2Den - Beta2Num), Beta2Den)
      + (Beta2Den - Beta2Num) * (VarScale \div Beta2Den) * g * g

\* SqrtScale * sqrt(v / c), c being the bias correction
SqrtCorrected(v, c) ==
    ISqrt((v \div c) * SqrtScale * SqrtScale + ((v % c) * SqrtScale * SqrtScale) \div c)

AdamDenom(v, t) == SqrtCorrected(v, BiasCorrection2(t))

\* The move of one parameter: lr * (m / bias_correction1) / (sqrt(v /
\* bias_correction2) + eps), in units of learning_rate / StepUnits.
AdamDelta(m, v, t) ==
    IF m = 0 THEN 0
    ELSE Div(StepUnits * m * SqrtScale,
             BiasCorrection1(t) * Max(AdamDenom(v, t), AdamEps))

AdamInit(p) == [t |-> 0, m |-> ZeroLike(p), v |-> ZeroLike(p)]

\* optimizer.step(): the new optimizer state.
AdamState(st, g) ==
    [t |-> st.t + 1,
     m |-> Linear([o \in 1..Len(g.weight) |-> AdamM(st.m.weight[o], g.weight[o])],
                  [o \in 1..Len(g.bias) |-> AdamM(st.m.bias[o], g.bias[o])]),
     v |-> Linear([o \in 1..Len(g.weight) |-> AdamV(st.v.weight[o], g.weight[o])],
                  [o \in 1..Len(g.bias) |-> AdamV(st.v.bias[o], g.bias[o])])]

\* optimizer.step(): the new parameters, st being the new optimizer state.
AdamParams(p, st) ==
    Linear([o \in 1..Len(p.weight) |->
              p.weight[o] - AdamDelta(st.m.weight[o], st.v.weight[o], st.t)],
           [o \in 1..Len(p.bias) |->
              p.bias[o] - AdamDelta(st.m.bias[o], st.v.bias[o], st.t)])

\* ---------------------------------------------------------------- state
VARIABLES
    network,                 \* ValueCritic.network: its parameters
    optimizer,               \* ValueCritic.optimizer: Adam's state
    ret,                     \* the last call on the ValueCritic and its outcome
    params,                  \* IQLAgent: parameter storage of the four networks
    critic_optimizer,        \* IQLAgent.critic_optimizer
    value_critic_optimizer,  \* IQLAgent.value_critic_optimizer
    target_update_period,    \* IQLAgent.target_update_period
    step,                    \* the step number the training loop passes next
    batch,                   \* the transition batch the training loop holds
    out                      \* the last call on the IQLAgent and its outcome

criticVars == <<network, optimizer, ret>>
agentVars == <<params, critic_optimizer, value_critic_optimizer,
               target_update_period, step, batch, out>>
vars == <<network, optimizer, ret, params, critic_optimizer,
          value_critic_optimizer, target_update_period, step, batch, out>>

\* ------------------------------------------------------------- inputs
ObsValues == {0, 1}
InitWeights == {-4, 4}
InitBiases == {0, 8}
TargetValues == {0, 8}

ObsBatches == UNION {[1..B -> ObsValues] : B \in 1..MaxBatch}

\* The tensors of a shape that hold one of the values at every place.
TensorsOf(sh, values) == {Tensor(sh, [k \in 1..Numel(sh) |-> v]) : v \in values}

\* The q_values a caller may pass with a batch of B observations: one per
\* observation, a column, a single value, or one value too many.
QValueShapes(B) == {<<B>>, <<B, 1>>, <<1>>, <<B + 1>>}
QValueTensors(B) == UNION {TensorsOf(sh, TargetValues) : sh \in QValueShapes(B)}

NoFraction == [num |-> 0, den |-> 1]
NoTensor == Tensor(<<>>, <<0>>)

\* ----------------------------------------------------------- ValueCritic
\* ValueCritic.forward
Forward(p, obs) == Squeeze(LinearForward(p, obs))

\* A sign slip in the regression error, self(obs) + q_values.
CriticSum(pred, q_values) == TAdd(pred, q_values)

\* self(obs) - q_values
CriticDiff(pred, q_values) == TSub(pred, q_values)

\* torch.square(...).mean()
CriticLoss(diff) == TMean(TSquare(diff))

\* loss.backward(): the gradient of the mean of the squared differences by
\* the network's parameters.
CriticGrad(obs, pred, diff) ==
    ScaleGrad(LinearBackward(obs, 1,
                  Unbroadcast(pred.shape, diff.shape,
                              [k \in 1..Len(diff.data) |-> 2 * diff.data[k]])),
              Len(diff.data))

\* ValueCritic.update, pred being self(obs).  The subtraction raises a
\* RuntimeError when the two shapes cannot be broadcast; the call then ends
\* before optimizer.step().
ValueCriticUpdate(p, opt, obs, q_values, pred) ==
    IF ~Broadcastable(pred.shape, q_values.shape)
    THEN [network |-> p, optimizer |-> opt, loss |-> NoFraction, raised |-> TRUE]
    ELSE With(CriticDiff(pred, q_values), LAMBDA diff :
         With(AdamState(opt, CriticGrad(obs, pred, diff)), LAMBDA st :
           [network |-> AdamParams(p, st), optimizer |-> st,
            loss |-> CriticLoss(diff), raised |-> FALSE]))

InitValueCritic ==
    /\ network \in {Linear(<<w>>, <<b>>) : w \in InitWeights, b \in InitBiases}
    /\ optimizer = AdamInit(network)
    /\ ret = [op |-> "init", obs |-> <<>>, q_values |-> NoTensor,
              pred |-> NoTensor, loss |-> NoFraction, raised |-> FALSE,
              network |-> network, optimizer |-> optimizer]

\* A call of forward(obs).
ForwardCall(obs) ==
    /\ ret' = [op |-> "forward", obs |-> obs, q_values |-> NoTensor,
               pred |-> Forward(network, obs), loss |-> NoFraction,
               raised |-> FALSE, network |-> network, optimizer |-> optimizer]
    /\ UNCHANGED <<network, optimizer>>

\* A call of update(obs, q_values) that ends as r says; ret keeps the
\* critic as it was before the call.
UpdateReturns(obs, q_values, pred, r) ==
    /\ network' = r.network
    /\ optimizer' = r.optimizer
    /\ ret' = [op |-> "update", obs |-> obs, q_values |-> q_values,
               pred |-> pred, loss |-> r.loss, raised |-> r.raised,
               network |-> network, optimizer |-> optimizer]

UpdateCallWith(obs, q_values, pred) ==
    UpdateReturns(obs, q_values, pred,
                  ValueCriticUpdate(network, optimizer, obs, q_values, pred))

UpdateCall(obs, q_values) == UpdateCallWith(obs, q_values, Forward(network, obs))

CriticForward ==
    /\ \E obs \in ObsBatches : ForwardCall(obs)
    /\ UNCHANGED agentVars

\* update with q_values from a return estimator; the last of a run's
\* updates is left to CriticUpdateOwnOutput.
CriticUpdate ==
    /\ optimizer.t + 1 < MaxCalls
    /\ \E obs \in ObsBatches : \E q \in QValueTensors(Len(obs)) : UpdateCall(obs, q)
    /\ UNCHANGED agentVars

\* update with q_values that are the critic's own current output.
CriticUpdateOwnOutput ==
    /\ optimizer.t < MaxCalls
    /\ \E obs \in ObsBatches : UpdateCall(obs, Forward(network, obs))
    /\ UNCHANGED agentVars

\* -------------------------------------------------------------- IQLAgent
NumActions == 2
\* discount and expectile, as fractions
DiscountNum == 99
DiscountDen == 100
ExpectileNum == 7
ExpectileDen == 10

\* The environment's reward for an action taken at an observation.
RewardOf(o, a) == 4 * o + 8 * a

\* The observation the environment moves to: action 1 flips it.
NextObsOf(o, a) == (o + a) % 2

\* A transition; a batch is a sequence of them, so the five arrays of a
\* batch are aligned.  Actions count from 0.
Transitions ==
    {[obs |-> o, action |-> a, reward |-> RewardOf(o, a),
      next_obs |-> NextObsOf(o, a), done |-> d] :
        o \in ObsValues, a \in 0..(NumActions - 1), d \in BOOLEAN}
Batches == UNION {[1..B -> Transitions] : B \in 1..MaxBatch}

Observations(b) == Once([i \in 1..Len(b) |-> b[i].obs])
NextObservations(b) == Once([i \in 1..Len(b) |-> b[i].next_obs])
\* actions.long()
ActionsLong(b) == Tensor(<<Len(b)>>, [i \in 1..Len(b) |-> b[i].action])
RewardsOf(b) == Tensor(<<Len(b)>>, [i \in 1..Len(b) |-> b[i].reward])
\* dones.int()
DonesInt(b) == Tensor(<<Len(b)>>, [i \in 1..Len(b) |-> IF b[i].done THEN 1 ELSE 0])
\* The terminal mask without its complement, dones.int() for 1 - dones.int().
DonesAsMask(b) == DonesInt(b)

\* 1 - dones.int()
OneMinusDones(b) ==
    Tensor(<<Len(b)>>, [i \in 1..Len(b) |-> 1 - DonesInt(b).data[i]])

\* The parameter storage each attribute of the agent refers to.
critic == "critic"
target_critic == "target_critic"
value_critic == "value_critic"
\* A target value critic that is the live value critic's own storage.
SharedValueCritic == "value_critic"
target_value_critic == "target_value_critic"
StorageIds == {critic, target_critic, value_critic, target_value_critic}

\* dst.load_state_dict(src.state_dict()): the values are copied into dst's
\* own storage.
LoadStateDict(P, dst, src) == [P EXCEPT ![dst] = P[src]]

\* The Q-critic of the base agent: one value per action, shape [B, A].
QNet(p, obs) == LinearForward(p, obs)

\* The network make_value_critic returns: one value per observation.
ValueNet(p, obs) == Forward(p, obs)

\* self.discount * x
TDiscount(t) ==
    Tensor(t.shape, [k \in 1..Len(t.data) |-> Div(DiscountNum * t.data[k], DiscountDen)])

\* The base agent's critic_loss, mean squared error
CriticLossFn(input, target) == TMean(TSquare(TSub(input, target)))

\* clip_grad_norm_ with max_norm = inf: the gradients stay, their norm
\* (times GradScale) is returned.
GradNorm(g) ==
    [num |-> ISqrt(SumSeq([o \in 1..Len(g.weight) |-> g.weight[o] * g.weight[o]])
                     + SumSeq([o \in 1..Len(g.bias) |-> g.bias[o] * g.bias[o]])),
     den |-> GradScale]

\* IQLAgent.compute_advantage
ComputeAdvantage(P, b) ==
    With(QNet(P[critic], Observations(b)), LAMBDA qa_values :
    With(Gather(qa_values, Unsqueeze1(ActionsLong(b))), LAMBDA q_values :
    With(ValueNet(P[value_critic], Observations(b)), LAMBDA vs :
      TSub(q_values, vs))))

\* update_q: the Q-values of the taken actions, from the live critic
QValues(P, b) ==
    Squeeze(Gather(QNet(P[critic], Observations(b)), Unsqueeze1(ActionsLong(b))))

\* update_q: rewards + discount * (1 - dones.int()) * target_value_critic(next_obs).
\* The product with the discount is rounded once, after the product of
\* the other two factors.
NextQValues(P, b) ==
    TAdd(RewardsOf(b),
         TDiscount(TMul(OneMinusDones(b),
                        ValueNet(P[target_value_critic], NextObservations(b)))))

\* The row-major [B, A] coefficients of the critic's output, given the
\* coefficient of each gathered element.
GatherBackward(b, coef) ==
    Once([k \in 1..(Len(b) * NumActions) |->
            IF ((k - 1) % NumActions) = b[((k - 1) \div NumActions) + 1].action
            THEN coef[((k - 1) \div NumActions) + 1] ELSE 0])

\* update_q, loss.backward()
QGrad(b, q_values, diff) ==
    ScaleGrad(LinearBackward(Observations(b), NumActions,
                  GatherBackward(b,
                      Unbroadcast(q_values.shape, diff.shape,
                                  [k \in 1..Len(diff.data) |-> 2 * diff.data[k]]))),
              Len(diff.data))

\* IQLAgent.update_q
UpdateQ(P, opt, b) ==
    With(QValues(P, b), LAMBDA q_values :
    With(NextQValues(P, b), LAMBDA next_q_values :
    With(QGrad(b, q_values, TSub(q_values, next_q_values)), LAMBDA grad :
    With(AdamState(opt, grad), LAMBDA st :
      [params |-> [P EXCEPT ![critic] = AdamParams(P[critic], st)],
       optimizer |-> st,
       next_q_values |-> next_q_values,
       metrics |-> [q_loss |-> CriticLossFn(q_values, next_q_values),
                    q_values |-> TMean(q_values),
                    target_values |-> TMean(next_q_values),
                    q_grad_norm |-> GradNorm(grad)]]))))

\* torch.where(diff > 0, 1 - expectile, expectile), times ExpectileDen
ExpectileWeight(d) == IF d > 0 THEN ExpectileDen - ExpectileNum ELSE ExpectileNum

\* IQLAgent.iql_expectile_loss: the loss as a fraction and the number of
\* its terms
IqlExpectileLoss(vs, target_qs) ==
    With(TSub(vs, target_qs), LAMBDA diff :
      [num |-> SumSeq([k \in 1..Len(diff.data) |->
                         ExpectileWeight(diff.data[k]) * diff.data[k] * diff.data[k]]),
       den |-> ExpectileDen * Len(diff.data),
       terms |-> Len(diff.data)])

\* update_v reading the live critic for its targets.
LiveValuesOf(P, b) ==
    Gather(QNet(P[critic], Observations(b)), Unsqueeze1(ActionsLong(b)))

\* update_v: the Q-values of the taken actions, from the target critic
TargetValuesOf(P, b) ==
    Gather(QNet(P[target_critic], Observations(b)), Unsqueeze1(ActionsLong(b)))

\* update_v, loss.backward()
VGrad(b, vs, diff) ==
    ScaleGrad(LinearBackward(Observations(b), 1,
                  Unbroadcast(vs.shape, diff.shape,
                      [k \in 1..Len(diff.data) |->
                          2 * ExpectileWeight(diff.data[k]) * diff.data[k]])),
              ExpectileDen * Len(diff.data))

\* IQLAgent.update_v
UpdateV(P, opt, b) ==
    With(TargetValuesOf(P, b), LAMBDA target_values :
    With(ValueNet(P[value_critic], Observations(b)), LAMBDA vs :
    With(VGrad(b, vs, TSub(vs, target_values)), LAMBDA grad :
    With(AdamState(opt, grad), LAMBDA st :
      [params |-> [P EXCEPT ![value_critic] = AdamParams(P[value_critic], st)],
       optimizer |-> st,
       target_values |-> target_values,
       metrics |-> [v_loss |-> IqlExpectileLoss(vs, target_values),
                    vs_adv |-> TMean(TSub(vs, target_values)),
                    vs |-> TMean(vs),
                    v_target_values |-> TMean(target_values),
                    v_grad_norm |-> GradNorm(grad)]]))))

\* {**a, **b}
MergeMetrics(a, b) == b @@ a

\* IQLAgent.update_critic
UpdateCritic(P, copt, vopt, b) ==
    With(UpdateQ(P, copt, b), LAMBDA q :
    With(UpdateV(q.params, vopt, b), LAMBDA v :
      [params |-> v.params,
       critic_optimizer |-> q.optimizer,
       value_critic_optimizer |-> v.optimizer,
       next_q_values |-> q.next_q_values,
       target_values |-> v.target_values,
       advantages |-> NoTensor,
       metrics |-> MergeMetrics(q.metrics, v.metrics)]))

\* The base agent's update_actor: it asks compute_advantage for the
\* advantages and trains the actor, which is no part of this state.
UpdateActor(P, b) ==
    [actor_loss |-> NoFraction, grad_norm_actor |-> NoFraction,
     actor_adv |-> ComputeAdvantage(P, b)]

\* The base agent's update_target_critic
UpdateTargetCritic(P) == LoadStateDict(P, target_critic, critic)

\* IQLAgent.update_target_value_critic
UpdateTargetValueCritic(P) == LoadStateDict(P, target_value_critic, value_critic)

\* A sync rule off by one, (step + 1) % period == 0.
SyncDueOffByOne(s, period) == (s + 1) % period = 0

\* step % self.target_update_period == 0
SyncDue(s, period) == s % period = 0

\* An update that synchronises the targets before its Q and V updates.
UpdateSyncFirst(P, copt, vopt, b, s, period) ==
    With(UpdateCritic(IF s % period = 0
                      THEN UpdateTargetValueCritic(UpdateTargetCritic(P))
                      ELSE P,
                      copt, vopt, b), LAMBDA c :
    With(UpdateActor(c.params, b), LAMBDA a :
      [params |-> c.params,
       critic_optimizer |-> c.critic_optimizer,
       value_critic_optimizer |-> c.value_critic_optimizer,
       next_q_values |-> c.next_q_values,
       target_values |-> c.target_values,
       advantages |-> a.actor_adv,
       metrics |-> MergeMetrics(c.metrics, a)]))

\* IQLAgent.update
Update(P, copt, vopt, b, s, period) ==
    With(UpdateCritic(P, copt, vopt, b), LAMBDA c :
    With(UpdateActor(c.params, b), LAMBDA a :
      [params |-> IF SyncDue(s, period)
                  THEN UpdateTargetValueCritic(UpdateTargetCritic(c.params))
                  ELSE c.params,
       critic_optimizer |-> c.critic_optimizer,
       value_critic_optimizer |-> c.value_critic_optimizer,
       next_q_values |-> c.next_q_values,
       target_values |-> c.target_values,
       advantages |-> a.actor_adv,
       metrics |-> MergeMetrics(c.metrics, a)]))

\* ------------------------------------------------------ the agent's steps
InitQ == {Linear(<<4, -4>>, <<0, 12>>)}
InitV == {Linear(<<4>>, <<0>>), Linear(<<-4>>, <<8>>)}

NoMetrics == <<>>

Snapshot == [params |-> params, critic_optimizer |-> critic_optimizer,
             value_critic_optimizer |-> value_critic_optimizer]

\* IQLAgent.__init__ (and the base agent's): every network starts with its
\* own random parameters q0, q1, v0, v1, then each target network loads its
\* live network's.
Constructed(q0, q1, v0, v1) ==
    LoadStateDict(
        LoadStateDict(
            [id \in StorageIds |->
                IF id = critic THEN q0
                ELSE IF id = value_critic THEN v0
                ELSE IF id = target_critic THEN q1 ELSE v1],
            target_critic, critic),
        target_value_critic, value_critic)

InitAgentWith(QInits, VInits, Periods, Bs) ==
    /\ \E q0 \in QInits, q1 \in QInits, v0 \in VInits, v1 \in VInits :
          params = Constructed(q0, q1, v0, v1)
    /\ critic_optimizer = AdamInit(params[critic])
    /\ value_critic_optimizer = AdamInit(params[value_critic])
    /\ target_update_period \in Periods
    /\ step = 0
    /\ batch \in Bs
    /\ out = [op |-> "init", step |-> 0, before |-> Snapshot,
              next_q_values |-> NoTensor, target_values |-> NoTensor,
              advantages |-> NoTensor, metrics |-> NoMetrics]

InitAgent == InitAgentWith(InitQ, InitV, 1..MaxPeriod, Batches)

\* A call op that ends as r says; out keeps the agent as it was before the
\* call.
Returns(op, r) ==
    /\ params' = r.params
    /\ critic_optimizer' = r.critic_optimizer
    /\ value_critic_optimizer' = r.value_critic_optimizer
    /\ out' = [op |-> op, step |-> step, before |-> Snapshot,
               next_q_values |-> r.next_q_values,
               target_values |-> r.target_values,
               advantages |-> r.advantages, metrics |-> r.metrics]

AgentComputeAdvantage ==
    /\ Returns("compute_advantage",
               [params |-> params, critic_optimizer |-> critic_optimizer,
                value_critic_optimizer |-> value_critic_optimizer,
                next_q_values |-> NoTensor, target_values |-> NoTensor,
                advantages |-> ComputeAdvantage(params, batch),
                metrics |-> NoMetrics])
    /\ UNCHANGED <<target_update_period, step, batch>>
    /\ UNCHANGED criticVars

AgentUpdateQ ==
    /\ critic_optimizer.t < MaxCalls
    /\ With(UpdateQ(params, critic_optimizer, batch), LAMBDA r :
         Returns("update_q",
                 [params |-> r.params, critic_optimizer |-> r.optimizer,
                  value_critic_optimizer |-> value_critic_optimizer,
                  next_q_values |-> r.next_q_values, target_values |-> NoTensor,
                  advantages |-> NoTensor, metrics |-> r.metrics]))
    /\ UNCHANGED <<target_update_period, step, batch>>
    /\ UNCHANGED criticVars

AgentUpdateV ==
    /\ value_critic_optimizer.t < MaxCalls
    /\ With(UpdateV(params, value_critic_optimizer, batch), LAMBDA r :
         Returns("update_v",
                 [params |-> r.params, critic_optimizer |-> critic_optimizer,
                  value_critic_optimizer |-> r.optimizer,
                  next_q_values |-> NoTensor, target_values |-> r.target_values,
                  advantages |-> NoTensor, metrics |-> r.metrics]))
    /\ UNCHANGED <<target_update_period, step, batch>>
    /\ UNCHANGED criticVars

AgentUpdateCritic ==
    /\ critic_optimizer.t < MaxCalls
    /\ value_critic_optimizer.t < MaxCalls
    /\ Returns("update_critic",
               UpdateCritic(params, critic_optimizer, value_critic_optimizer, batch))
    /\ UNCHANGED <<target_update_period, step, batch>>
    /\ UNCHANGED criticVars

\* The training loop's call update(..., step), with step = 0, 1, 2, ...
AgentUpdate ==
    /\ step < MaxSteps
    /\ critic_optimizer.t < MaxSteps
    /\ value_critic_optimizer.t < MaxSteps
    /\ Returns("update",
               Update(params, critic_optimizer, value_critic_optimizer, batch,
                      step, target_update_period))
    /\ step' = step + 1
    /\ UNCHANGED <<target_update_period, batch>>
    /\ UNCHANGED criticVars

AgentUpdateTargetValueCritic ==
    /\ Returns("update_target_value_critic",
               [params |-> UpdateTargetValueCritic(params),
                critic_optimizer |-> critic_optimizer,
                value_critic_optimizer |-> value_critic_optimizer,
                next_q_values |-> NoTensor, target_values |-> NoTensor,
                advantages |-> NoTensor, metrics |-> NoMetrics])
    /\ UNCHANGED <<target_update_period, step, batch>>
    /\ UNCHANGED criticVars

\* ------------------------------------------------------- specifications
\* The stand-alone ValueCritic as constructed, beside the agent.
CriticAsConstructed ==
    /\ network = Linear(<<4>>, <<0>>)
    /\ InitValueCritic

\* One agent as constructed, beside the stand-alone ValueCritic.
AgentAsConstructed ==
    InitAgentWith(InitQ, {Linear(<<4>>, <<0>>)}, {1},
                  {<<[obs |-> 0, action |-> 0, reward |-> 0, next_obs |-> 0,
                      done |-> FALSE]>>})

\* The training loop: update with step = 0, 1, 2, ... on its batch, and
\* compute_advantage.
Init == InitAgent /\ CriticAsConstructed

Next ==
    \/ AgentUpdate
    \/ AgentComputeAdvantage

Spec == Init /\ [][Next]_vars

\* The agent's methods, called one by one in any order.
InitMethods ==
    /\ InitAgentWith(InitQ, {Linear(<<-4>>, <<8>>)}, {1}, Batches)
    /\ CriticAsConstructed

NextMethods ==
    \/ AgentComputeAdvantage
    \/ AgentUpdateQ
    \/ AgentUpdateV
    \/ AgentUpdateCritic
    \/ AgentUpdateTargetValueCritic

SpecMethods == InitMethods /\ [][NextMethods]_vars

InitCritic == InitValueCritic /\ AgentAsConstructed

NextCritic ==
    \/ CriticForward
    \/ CriticUpdate
    \/ CriticUpdateOwnOutput

SpecValueCritic == InitCritic /\ [][NextCritic]_vars

\* ---------------------------------------------------------------- claims
\* The value of one observation x under value-network parameters p, and
\* the Q-value of action a at x under Q-network parameters p.
ValueAt(p, x) == ValueNet(p, <<x>>).data[1]
QAt(p, x, a) == QNet(p, <<x>>).data[a + 1]

\* C1: a call update(..., step) overwrites both target networks with their
\* live networks' parameters exactly when step % target_update_period = 0;
\* in every other call both target networks keep the parameters they had
\* before the call.
C1_SyncExactlyOnPeriod ==
    out.op = "update" =>
        IF out.step % target_update_period = 0
        THEN /\ params[target_critic] = params[critic]
             /\ params[target_value_critic] = params[value_critic]
        ELSE /\ params[target_critic] = out.before.params[target_critic]
             /\ params[target_value_critic] = out.before.params[target_value_critic]

\* A call with step = 1 and period 2: both live networks moved, no target did.
C1_Witness ==
    /\ out.op = "update"
    /\ out.step = 1
    /\ target_update_period = 2
    /\ params[critic] # out.before.params[critic]
    /\ params[value_critic] # out.before.params[value_critic]
    /\ params[target_critic] = out.before.params[target_critic]
    /\ params[target_critic] # params[critic]

\* C2: within one call of update the targets are synchronised after the Q
\* and V updates: the Q and V regression targets are computed from the
\* target networks as they were before the call, and when the call syncs,
\* the target networks at return hold the live networks' parameters as the
\* call's updates left them.
C2_SyncAfterUpdates ==
    out.op = "update" =>
        /\ out.next_q_values = NextQValues(out.before.params, batch)
        /\ out.target_values = TargetValuesOf(out.before.params, batch)
        /\ out.step % target_update_period = 0 =>
              With(UpdateCritic(out.before.params, out.before.critic_optimizer,
                                out.before.value_critic_optimizer, batch),
                   LAMBDA c :
                     /\ params[target_critic] = c.params[critic]
                     /\ params[target_value_critic] = c.params[value_critic]
                     /\ params[critic] = c.params[critic]
                     /\ params[value_critic] = c.params[value_critic])

\* A syncing call with step = 2 and period 2: the targets differed from the
\* live networks before the call, and both were overwritten.
C2_Witness ==
    /\ out.op = "update"
    /\ out.step = 2
    /\ target_update_period = 2
    /\ out.before.params[target_value_critic] # out.before.params[value_critic]
    /\ out.before.params[target_critic] # out.before.params[critic]
    /\ params[target_value_critic] # out.before.params[target_value_critic]
    /\ params[target_critic] # out.before.params[target_critic]
    /\ params[value_critic] # out.before.params[value_critic]

C5_AdvantagePerElement ==
    out.op = "compute_advantage" =>
        /\ Len(out.advantages.data) = Len(batch)
        /\ \A i \in 1..Len(batch) :
              out.advantages.data[i] =
                 QAt(params[critic], batch[i].obs, batch[i].action)
                   - ValueAt(params[value_critic], batch[i].obs)

\* The expectile loss of C6 times ExpectileDen * B: the sum over the batch
\* of w_i * (V_live(obs_i) - Q_target(obs_i)[action_i])^2.
PairedExpectileSum(P, b) ==
    SumSeq([i \in 1..Len(b) |->
              ExpectileWeight(ValueAt(P[value_critic], b[i].obs)
                                - QAt(P[target_critic], b[i].obs, b[i].action))
                * (ValueAt(P[value_critic], b[i].obs)
                     - QAt(P[target_critic], b[i].obs, b[i].action))
                * (ValueAt(P[value_critic], b[i].obs)
                     - QAt(P[target_critic], b[i].obs, b[i].action))])

\* C6: update_v's loss is the mean over the B batch elements of w_i *
\* (V_live(obs_i) - Q_target(obs_i)[action_i])^2, exactly B terms.
C6_ExpectileLossPerElement ==
    out.op = "update_v" =>
        /\ out.metrics.v_loss.terms = Len(batch)
        /\ out.metrics.v_loss.num * (ExpectileDen * Len(batch))
             = PairedExpectileSum(out.before.params, batch) * out.metrics.v_loss.den

\* C7 as stated: update with q_values equal to the critic's current output
\* reports loss 0 and leaves the parameters unchanged, in every state.
C7_Original ==
    (ret.op = "update" /\ ~ret.raised /\ ret.q_values = ret.pred) =>
        /\ ret.loss.num = 0
        /\ network = ret.network

\* C7, amended: such an update reports loss 0, and it leaves the parameters
\* unchanged when the optimizer's first moments are all zero (a fresh
\* critic, or one whose earlier updates all had gradient zero).
C7_OwnOutputIsFixedPoint ==
    (ret.op = "update" /\ ~ret.raised /\ ret.q_values = ret.pred) =>
        /\ ret.loss.num = 0
        /\ ret.optimizer.m = ZeroLike(ret.network) => network = ret.network

\* An update on the critic's own output of a batch of two, after an
\* earlier update.
C7_Witness ==
    /\ ret.op = "update"
    /\ ~ret.raised
    /\ ret.q_values = ret.pred
    /\ Len(ret.obs) = 2
    /\ ret.pred.data[1] # ret.pred.data[2]
    /\ ret.optimizer.t = 1
    /\ ret.optimizer.m = ZeroLike(ret.network)
    /\ network = ret.network

\* C8: update with q_values of another shape than forward(obs) ends in a
\* shape-mismatch error, the parameters unchanged.
C8_ShapeMismatchRaises ==
    (ret.op = "update" /\ ret.q_values.shape # ret.pred.shape) =>
        /\ ret.raised
        /\ network = ret.network

\* C9: forward returns shape [B] for a batch of B observations, B >= 1.
C9_ForwardShape ==
    ret.op = "forward" => ret.pred.shape = <<Len(ret.obs)>>

\* C10: update_q and update_v commute.  update_q changes the live critic
\* and its optimizer only, update_v the live value critic and its optimizer
\* only, and update_critic's update_q then update_v ends with the
\* parameters, optimizers and merged metrics of update_v then update_q.
C10_UpdatesCommute ==
    /\ out.op = "update_q" =>
          /\ \A id \in StorageIds \ {critic} : params[id] = out.before.params[id]
          /\ value_critic_optimizer = out.before.value_critic_optimizer
    /\ out.op = "update_v" =>
          /\ \A id \in StorageIds \ {value_critic} : params[id] = out.before.params[id]
          /\ critic_optimizer = out.before.critic_optimizer
    /\ out.op = "update_critic" =>
          With(UpdateV(out.before.params, out.before.value_critic_optimizer, batch),
               LAMBDA v :
          With(UpdateQ(v.params, out.before.critic_optimizer, batch),
               LAMBDA q :
                 /\ params = q.params
                 /\ critic_optimizer = q.optimizer
                 /\ value_critic_optimizer = v.optimizer
                 /\ out.metrics = MergeMetrics(v.metrics, q.metrics)))

\* An update_critic that moved both live networks, after an update_q that
\* left the live critic away from the target critic.
C10_Witness ==
    /\ out.op = "update_critic"
    /\ out.before.params[critic] # out.before.params[target_critic]
    /\ params[critic] # out.before.params[critic]
    /\ params[value_critic] # out.before.params[value_critic]

====
